---- MODULE Spec2Model ----
(***************************************************************************)
(* Cross-Platform Content Genie: the App component's state (idea, tone,   *)
(* results, loading, error), the handleGenerate pipeline and the two      *)
(* service wrappers generateSocialPosts and generateImage.                *)
(*                                                                         *)
(* One action is one task of the UI event loop: a user event, or the      *)
(* settlement of an outbound call together with every continuation it     *)
(* resumes (the continuations run as microtasks of that same task).       *)
(***************************************************************************)
EXTENDS Integers, Sequences, FiniteSets, TLC

\* Number of accepted submissions the model follows.
MaxRequests == 2
\* Longest array the text service returns in the model.
MaxPosts == 3

\* null, for the error (a string or null) and for an aspect ratio not kept.
NULL == "null"

\* The results state is null or an array; the two are told apart by isNull
\* (an empty array is not null: `results &&` renders an empty grid for it).
NullResults == [isNull |-> TRUE, value |-> <<>>]
SomeResults(array) == [isNull |-> FALSE, value |-> array]

\* types: SocialPlatform, Tone, AspectRatio
SocialPlatform == {"LinkedIn", "Twitter", "Instagram"}
Tone == {"Professional", "Witty", "Urgent"}
AspectRatio == {"4:3", "16:9", "1:1"}

\* Characters String.prototype.trim removes, as far as the ideas below use them.
Whitespace == {" ", "\t", "\n"}

\* The tones the user selects: the initial one and one other.
SelectedTones == {"Professional", "Witty"}

\* The idea strings the user types, as sequences of characters: the empty
\* string, a whitespace-only string and a valid idea with blanks around it.
Ideas == { <<>>, <<" ", "\n">>, <<" ", "a", " ">> }

RequestIds == 1..MaxRequests

VARIABLES idea, tone, results, loading, error, requests

vars == <<idea, tone, results, loading, error, requests>>

----------------------------------------------------------------------------
\* String.prototype.trim

RECURSIVE TrimStart(_)
TrimStart(s) ==
    IF s # <<>> /\ Head(s) \in Whitespace THEN TrimStart(Tail(s)) ELSE s

RECURSIVE TrimEnd(_)
TrimEnd(s) ==
    IF s # <<>> /\ s[Len(s)] \in Whitespace
    THEN TrimEnd(SubSeq(s, 1, Len(s) - 1))
    ELSE s

Trim(s) == TrimEnd(TrimStart(s))

\* Variant: `!idea`, the test without the trim.
IdeaRejectedWithoutTrim(s) == s = <<>>

\* `!idea.trim()`: the empty string is the only falsy string.
IdeaRejected(s) == Trim(s) = <<>>

----------------------------------------------------------------------------
\* geminiService.ts

ContentError == "Failed to generate content. Please check your input and try again."
ImageError == "Failed to generate an image for the post."
ValidationError == "Please enter an idea."

platformOrder == <<"LinkedIn", "Twitter", "Instagram">>

\* Array.prototype.indexOf: zero-based, -1 when absent.
IndexOf(seq, x) ==
    IF \E i \in 1..Len(seq) : seq[i] = x
    THEN (CHOOSE i \in 1..Len(seq) :
              seq[i] = x /\ \A j \in 1..(i - 1) : seq[j] # x) - 1
    ELSE -1

\* The comparator handed to sort.
ComparePosts(a, b) ==
    IndexOf(platformOrder, a.platform) - IndexOf(platformOrder, b.platform)

\* Insert x behind every element that does not compare greater (stable).
RECURSIVE InsertSorted(_, _)
InsertSorted(sorted, x) ==
    IF sorted = <<>> THEN <<x>>
    ELSE IF ComparePosts(Head(sorted), x) <= 0
         THEN <<Head(sorted)>> \o InsertSorted(Tail(sorted), x)
         ELSE <<x>> \o sorted

\* Array.prototype.sort with ComparePosts; the sort is stable.
RECURSIVE SortPosts(_)
SortPosts(seq) ==
    IF seq = <<>> THEN <<>>
    ELSE InsertSorted(SortPosts(SubSeq(seq, 1, Len(seq) - 1)), seq[Len(seq)])

\* The arrays JSON.parse can yield for a response that follows responseSchema:
\* any number of items, each with a platform of the enum. An item carries the
\* service's text and image prompt for its platform; a platform's second item
\* carries another text and prompt than its first.
Occurrence(f, k) == Cardinality({j \in 1..k : f[j] = f[k]})

ParsedResponses ==
    UNION { { [k \in 1..n |-> [platform |-> f[k],
                               text |-> <<"text", f[k], Occurrence(f, k)>>,
                               image_prompt |-> <<"prompt", f[k], Occurrence(f, k)>>]] :
              f \in [1..n -> SocialPlatform] } : n \in 0..MaxPosts }

\* What generateSocialPosts returns for a parsed response.
GenerateSocialPosts(parsedResponse) == SortPosts(parsedResponse)

\* The prompt generateImage sends.
StyledPrompt(prompt) == <<"High-quality, professional photograph style: ", prompt>>

\* The imageBytes the image service answers a request with: the image of that
\* prompt in that ratio, so that distinct requests yield distinct images.
ImageBytes(call) == <<call.prompt, call.aspectRatio>>

\* The data URL generateImage returns.
ImageUrl(call) == <<"data:image/jpeg;base64,", ImageBytes(call)>>

----------------------------------------------------------------------------
\* App

\* Variant: the Twitter case is missing and falls through to the default.
getAspectRatioWithoutTwitter(platform) ==
    CASE platform = "LinkedIn" -> "4:3"
      [] platform = "Instagram" -> "1:1"
      [] OTHER -> "1:1"

getAspectRatioForPlatform(platform) ==
    CASE platform = "LinkedIn" -> "4:3"
      [] platform = "Twitter" -> "16:9"
      [] platform = "Instagram" -> "1:1"
      [] OTHER -> "1:1"

\* ResultCard's platformConfig[platform].aspectRatio, handed to ImagePlaceholder.
platformConfigAspectRatio(platform) ==
    CASE platform = "LinkedIn" -> "4:3"
      [] platform = "Twitter" -> "16:9"
      [] platform = "Instagram" -> "1:1"

\* What ResultCard shows in the image slot of a result.
CardImageSlot(result) ==
    IF result.imageUrl # <<>>
    THEN [kind |-> "img", src |-> result.imageUrl]
    ELSE [kind |-> "placeholder",
          aspectRatio |-> platformConfigAspectRatio(result.platform)]

\* Variant: the submit button is never disabled.
SubmitNeverDisabled == FALSE

\* `disabled={loading}` on the submit button and on the textarea.
SubmitDisabled == loading
TextareaDisabled == loading

\* How many calls of an invocation that has thrown have settled since.
NoneSettled == [resolved |-> 0, rejected |-> 0]

\* An invocation of handleGenerate that has not been made yet.
NoRequest ==
    [phase |-> "idle", posts |-> <<>>, images |-> <<>>, settled |-> NoneSettled]

InitialResults(postContents) ==
    [k \in 1..Len(postContents) |->
        [platform |-> postContents[k].platform,
         text |-> postContents[k].text,
         image_prompt |-> postContents[k].image_prompt,
         imageUrl |-> <<>>]]

\* The generateImage calls started by postContents.map, all pending.
ImagePromises(postContents) ==
    [k \in 1..Len(postContents) |->
        [prompt |-> StyledPrompt(postContents[k].image_prompt),
         aspectRatio |-> getAspectRatioForPlatform(postContents[k].platform),
         status |-> "pending"]]

\* Variant: the values taken last call first.
ImageUrlsReversed(images) ==
    [k \in 1..Len(images) |-> ImageUrl(images[Len(images) + 1 - k])]

\* What Promise.all resolves to: the values in the order of the promises.
ImageUrls(images) == [k \in 1..Len(images) |-> ImageUrl(images[k])]

FinalResults(initialResults, imageUrls) ==
    [k \in 1..Len(initialResults) |->
        [initialResults[k] EXCEPT !.imageUrl = imageUrls[k]]]

Started(reqs) == {r \in RequestIds : reqs[r].phase # "idle"}

\* The most recent invocation of handleGenerate that passed validation.
Latest(reqs) == IF Started(reqs) = {} THEN 0
                ELSE CHOOSE r \in Started(reqs) : \A q \in Started(reqs) : q <= r

IsPending(call) == call.status = "pending"

CountStatus(images, status) ==
    Cardinality({k \in 1..Len(images) : images[k].status = status})

\* A pending call of an invocation that has thrown: nothing reads its answer.
Unread(call) == [prompt |-> <<>>, aspectRatio |-> NULL, status |-> "pending"]

\* An invocation that has thrown reads neither its posts nor its calls again:
\* what is left of it are the calls still pending and, of the settled ones,
\* how many resolved and how many rejected.
Abandoned(req) ==
    LET pending == SelectSeq(req.images, IsPending) IN
    [phase |-> "failed",
     posts |-> <<>>,
     images |-> [k \in 1..Len(pending) |-> Unread(pending[k])],
     settled |-> [resolved |-> req.settled.resolved
                                  + CountStatus(req.images, "resolved"),
                  rejected |-> req.settled.rejected
                                  + CountStatus(req.images, "rejected")]]

\* An invocation that has returned and has been superseded by a later one
\* holds nothing but the calls of it that are still to settle: its closure is
\* unreachable and a settled promise is never read again.
Superseded(req) ==
    [phase |-> req.phase,
     posts |-> <<>>,
     images |-> SelectSeq(req.images, IsPending),
     settled |-> NoneSettled]

\* What the runtime still holds of each invocation.
Retire(reqs) ==
    [r \in RequestIds |->
        IF reqs[r].phase = "failed"
        THEN IF r # Latest(reqs)
             THEN Superseded(Abandoned(reqs[r]))
             ELSE Abandoned(reqs[r])
        ELSE IF reqs[r].phase = "complete" /\ r # Latest(reqs)
             THEN Superseded(reqs[r])
             ELSE reqs[r]]

Init ==
    /\ idea = <<>>
    /\ tone = "Professional"
    /\ results = NullResults
    /\ loading = FALSE
    /\ error = NULL
    /\ requests = [r \in RequestIds |-> NoRequest]

\* onChange of the textarea.
SetIdea(value) ==
    /\ ~TextareaDisabled
    /\ value # idea
    /\ idea' = value
    /\ UNCHANGED <<tone, results, loading, error, requests>>

\* onSelectTone of the ToneSelector; it is never disabled.
SetTone(value) ==
    /\ value # tone
    /\ tone' = value
    /\ UNCHANGED <<idea, results, loading, error, requests>>

\* Variant: the state is cleared before the idea is validated.
HandleGenerateRejectedAfterClearing ==
    /\ ~SubmitDisabled
    /\ IdeaRejected(idea)
    /\ error' = ValidationError
    /\ results' = NullResults
    /\ UNCHANGED <<idea, tone, loading, requests>>

\* handleGenerate, the validation branch.
HandleGenerateRejected ==
    /\ ~SubmitDisabled
    /\ IdeaRejected(idea)
    /\ error' = ValidationError
    /\ UNCHANGED <<idea, tone, results, loading, requests>>

\* handleGenerate up to `await generateSocialPosts(idea, tone)`.
HandleGenerateAccepted(r) ==
    /\ ~SubmitDisabled
    /\ ~IdeaRejected(idea)
    /\ requests[r].phase = "idle"
    /\ \A q \in RequestIds : q < r => requests[q].phase # "idle"
    /\ loading' = TRUE
    /\ error' = NULL
    /\ results' = NullResults
    /\ requests' = Retire([requests EXCEPT ![r] =
                       [requests[r] EXCEPT !.phase = "loading"]])
    /\ UNCHANGED <<idea, tone>>

\* onClick of the submit button.
HandleGenerate ==
    \/ HandleGenerateRejected
    \/ \E r \in RequestIds : HandleGenerateAccepted(r)

\* Variant: the continuation leaves the loading flag set.
JoinResolvedStillLoading(r, reqs) ==
    /\ results' = SomeResults(FinalResults(InitialResults(reqs[r].posts),
                                           ImageUrls(reqs[r].images)))
    /\ requests' = Retire([reqs EXCEPT ![r].phase = "complete"])
    /\ UNCHANGED <<idea, tone, error, loading>>

\* The continuation after `await Promise.all(imagePromises)` resolves.
JoinResolved(r, reqs) ==
    /\ results' = SomeResults(FinalResults(InitialResults(reqs[r].posts),
                                           ImageUrls(reqs[r].images)))
    /\ loading' = FALSE
    /\ requests' = Retire([reqs EXCEPT ![r].phase = "complete"])
    /\ UNCHANGED <<idea, tone, error>>

\* Variant: a catch without the finally.
CatchWithoutFinally(r, reqs, message) ==
    /\ error' = message
    /\ results' = NullResults
    /\ requests' = Retire([reqs EXCEPT ![r].phase = "failed"])
    /\ UNCHANGED <<idea, tone, loading>>

\* catch and finally of handleGenerate.
CatchAndFinally(r, reqs, message) ==
    /\ error' = message
    /\ results' = NullResults
    /\ loading' = FALSE
    /\ requests' = Retire([reqs EXCEPT ![r].phase = "failed"])
    /\ UNCHANGED <<idea, tone>>

\* generateContent resolves with text that parses: generateSocialPosts sorts,
\* handleGenerate shows the posts, starts one generateImage per post and
\* awaits them all.
TextResolves(r, parsedResponse) ==
    /\ requests[r].phase = "loading"
    /\ LET postContents == GenerateSocialPosts(parsedResponse) IN
        /\ results' = SomeResults(InitialResults(postContents))
        /\ requests' = [requests EXCEPT ![r] =
                           [phase |-> "partial",
                            posts |-> postContents,
                            images |-> ImagePromises(postContents),
                            settled |-> NoneSettled]]
    /\ UNCHANGED <<idea, tone, loading, error>>

\* generateContent rejects, or its text does not parse into an array:
\* generateSocialPosts throws ContentError.
TextFails(r) ==
    /\ requests[r].phase = "loading"
    /\ CatchAndFinally(r, requests, ContentError)

\* Promise.all of no promises is resolved at once; handleGenerate resumes in
\* a later microtask.
EmptyJoinResumes(r) ==
    /\ requests[r].phase = "partial"
    /\ requests[r].images = <<>>
    /\ JoinResolved(r, requests)

\* Variant: each image is written into the results as soon as it resolves.
ImageResolvesShownAtOnce(r, k) ==
    /\ k \in 1..Len(requests[r].images)
    /\ requests[r].images[k].status = "pending"
    /\ LET reqs == [requests EXCEPT ![r].images[k].status = "resolved"] IN
        IF requests[r].phase = "partial"
        THEN /\ results' = SomeResults([results.value EXCEPT
                                ![k].imageUrl = ImageUrl(requests[r].images[k])])
             /\ IF \A j \in 1..Len(reqs[r].images) : reqs[r].images[j].status = "resolved"
                THEN /\ loading' = FALSE
                     /\ requests' = Retire([reqs EXCEPT ![r].phase = "complete"])
                ELSE /\ requests' = Retire(reqs)
                     /\ UNCHANGED loading
             /\ UNCHANGED <<idea, tone, error>>
        ELSE /\ requests' = Retire(reqs)
             /\ UNCHANGED <<idea, tone, results, loading, error>>

\* generateImages resolves for the k-th post of invocation r.
ImageResolves(r, k) ==
    /\ k \in 1..Len(requests[r].images)
    /\ requests[r].images[k].status = "pending"
    /\ LET reqs == [requests EXCEPT ![r].images[k].status = "resolved"] IN
        IF requests[r].phase = "partial"
           /\ \A j \in 1..Len(reqs[r].images) : reqs[r].images[j].status = "resolved"
        THEN JoinResolved(r, reqs)
        ELSE /\ requests' = Retire(reqs)
             /\ UNCHANGED <<idea, tone, results, loading, error>>

\* Variant: the join waits for every call and ignores the rejected ones
\* (Promise.allSettled in place of Promise.all).
ImageFailsIgnored(r, k) ==
    /\ k \in 1..Len(requests[r].images)
    /\ requests[r].images[k].status = "pending"
    /\ requests' = Retire([requests EXCEPT ![r].images[k].status = "rejected"])
    /\ UNCHANGED <<idea, tone, results, loading, error>>

\* generateImages rejects, or answers without an image, for the k-th post of
\* invocation r: generateImage throws ImageError, which rejects Promise.all
\* unless it is settled already.
ImageFails(r, k) ==
    /\ k \in 1..Len(requests[r].images)
    /\ requests[r].images[k].status = "pending"
    /\ LET reqs == [requests EXCEPT ![r].images[k].status = "rejected"] IN
        IF requests[r].phase = "partial"
        THEN CatchAndFinally(r, reqs, ImageError)
        ELSE /\ requests' = Retire(reqs)
             /\ UNCHANGED <<idea, tone, results, loading, error>>

Next ==
    \/ \E value \in Ideas : SetIdea(value)
    \/ \E value \in SelectedTones : SetTone(value)
    \/ HandleGenerate
    \/ \E r \in RequestIds : \E parsedResponse \in ParsedResponses :
           TextResolves(r, parsedResponse)
    \/ \E r \in RequestIds : TextFails(r)
    \/ \E r \in RequestIds : EmptyJoinResumes(r)
    \/ \E r \in RequestIds : \E k \in 1..MaxPosts : ImageResolves(r, k)
    \/ \E r \in RequestIds : \E k \in 1..MaxPosts : ImageFails(r, k)

Spec == Init /\ [][Next]_vars

\* Every outbound call that is pending settles in the end.
Settles ==
    \/ \E r \in RequestIds : \E parsedResponse \in ParsedResponses :
           TextResolves(r, parsedResponse)
    \/ \E r \in RequestIds : TextFails(r)
    \/ \E r \in RequestIds : EmptyJoinResumes(r)
    \/ \E r \in RequestIds : \E k \in 1..MaxPosts : ImageResolves(r, k)
    \/ \E r \in RequestIds : \E k \in 1..MaxPosts : ImageFails(r, k)

LiveSpec == Init /\ [][Next]_vars /\ WF_vars(Settles)

----------------------------------------------------------------------------
\* Vocabulary of the properties

InFlight(r) == requests[r].phase \in {"loading", "partial"}
Terminal(r) == requests[r].phase \in {"complete", "failed"}
IsLatest(r) == r = Latest(requests)

\* The idea is empty or consists of whitespace only.
Blank(s) == \A i \in 1..Len(s) : s[i] \in Whitespace

\* This step starts a call to the text service or to the image service.
IssuesCall ==
    \E r \in RequestIds :
        \/ requests[r].phase = "idle" /\ requests'[r].phase # "idle"
        \/ Len(requests'[r].images) > Len(requests[r].images)

AllImagesEmpty(array) == \A k \in 1..Len(array) : array[k].imageUrl = <<>>
AllImagesPresent(array) == \A k \in 1..Len(array) : array[k].imageUrl # <<>>

RatioOf(platform) ==
    IF platform = "LinkedIn" THEN "4:3"
    ELSE IF platform = "Twitter" THEN "16:9"
    ELSE IF platform = "Instagram" THEN "1:1"
    ELSE "none"

----------------------------------------------------------------------------
\* C1: whenever a result set is present it has exactly three entries, one per
\* platform, in the order LinkedIn, Twitter, Instagram, for every response of
\* the text service that parses.
C1_OnePerPlatformInOrder ==
    ~results.isNull =>
        /\ Len(results.value) = 3
        /\ \A k \in 1..3 : results.value[k].platform = platformOrder[k]

\* C2: while the idea is empty or whitespace-only no step starts a service
\* call, and a submission made then leaves the validation error set.
C2_BlankIdeaNoCall ==
    [][Blank(idea) =>
          /\ ~IssuesCall
          /\ HandleGenerate => error' = ValidationError]_vars

C2_Witness ==
    /\ idea = <<" ", "\n">>
    /\ error = ValidationError
    /\ \A r \in RequestIds : requests[r].phase = "idle"

\* C3: once a request has failed in the text call, the result set is null, an
\* error message is set, the loading flag is false and the request has issued
\* no image call.
C3_TextFailureClears ==
    \A r \in RequestIds :
        (IsLatest(r) /\ requests[r].phase = "failed") =>
            /\ error # NULL
            /\ results.isNull
            /\ ~loading
            /\ error = ContentError =>
                   requests[r].images = <<>> /\ requests[r].settled = NoneSettled

C3_Witness ==
    /\ requests[1].phase = "complete"
    /\ requests[2].phase = "failed"
    /\ error = ContentError
    /\ results.isNull
    /\ ~loading

\* C4: a request with a rejected image call is failed: while it is the latest
\* request the error is set and the result set is null, also after its other
\* image calls have resolved; and no result set ever has images on only some
\* of its entries.
C4_OneImageFailureFailsAll ==
    /\ \A r \in RequestIds :
          (\/ requests[r].settled.rejected > 0
           \/ \E k \in 1..Len(requests[r].images) :
                  requests[r].images[k].status = "rejected") =>
              /\ requests[r].phase = "failed"
              /\ IsLatest(r) => error # NULL /\ results.isNull /\ ~loading
    /\ ~results.isNull =>
          AllImagesEmpty(results.value) \/ AllImagesPresent(results.value)

C4_Witness ==
    \E r \in RequestIds :
        /\ requests[r].phase = "failed"
        /\ requests[r].images = <<>>
        /\ requests[r].settled = [resolved |-> 2, rejected |-> 1]
        /\ error = ImageError
        /\ results.isNull

\* C5: at most one request is in flight; while one is, the loading flag is
\* set and no submission is possible.
C5_OneRequestInFlight ==
    /\ Cardinality({r \in RequestIds : InFlight(r)}) <= 1
    /\ \A r \in RequestIds :
          InFlight(r) => loading /\ IsLatest(r) /\ ~ENABLED HandleGenerate

C5_Witness ==
    /\ requests[2].phase = "partial"
    /\ requests[1].phase = "failed"
    /\ requests[1].images # <<>>
    /\ loading

\* C6: a request moves only idle -> loading -> partial -> complete, or from
\* loading or partial to failed; the latest request's phase is what the client
\* sees (partial: results present with every image URL empty); and once the
\* latest request is complete or failed, results and error change only by a
\* submission.
C6_PhaseChanges ==
    {<<"idle", "loading">>, <<"loading", "partial">>, <<"partial", "complete">>,
     <<"loading", "failed">>, <<"partial", "failed">>}

C6_Visible(r) ==
    CASE requests[r].phase = "loading" -> loading /\ results.isNull /\ error = NULL
      [] requests[r].phase = "partial" ->
             /\ loading /\ error = NULL
             /\ ~results.isNull /\ AllImagesEmpty(results.value)
      [] requests[r].phase = "complete" ->
             /\ ~loading
             /\ ~results.isNull /\ AllImagesPresent(results.value)
      [] requests[r].phase = "failed" -> ~loading /\ results.isNull /\ error # NULL
      [] OTHER -> TRUE

C7_JoinKeepsPostsAndImages ==
    \A r \in RequestIds :
        /\ requests[r].phase = "partial" =>
               Len(requests[r].images) = Len(requests[r].posts)
        /\ (IsLatest(r) /\ requests[r].phase = "complete") =>
               /\ ~results.isNull
               /\ Len(results.value) = Len(requests[r].posts)
               /\ Len(requests[r].images) = Len(requests[r].posts)
               /\ \A k \in 1..Len(requests[r].posts) :
                     /\ requests[r].images[k].status = "resolved"
                     /\ results.value[k].platform = requests[r].posts[k].platform
                     /\ results.value[k].text = requests[r].posts[k].text
                     /\ results.value[k].image_prompt = requests[r].posts[k].image_prompt
                     /\ results.value[k].imageUrl[2][1][2] =
                            results.value[k].image_prompt

C7_Witness ==
    \E r \in RequestIds :
        /\ requests[r].phase = "complete"
        /\ ~results.isNull
        /\ Len(results.value) = 3
        /\ \A k \in 1..3 : results.value[k].platform = platformOrder[k]
        /\ AllImagesPresent(results.value)

\* C8: every image request carries the ratio of its post's platform
\* (LinkedIn 4:3, Twitter 16:9, Instagram 1:1), and the placeholder of a
\* pending post has the ratio of the post's image request.
C8_RatioByPlatform ==
    \A r \in RequestIds :
        requests[r].phase \in {"partial", "complete"} =>
            \A k \in 1..Len(requests[r].images) :
                /\ requests[r].images[k].aspectRatio =
                       RatioOf(requests[r].posts[k].platform)
                /\ (IsLatest(r) /\ requests[r].phase = "partial") =>
                       /\ CardImageSlot(results.value[k]).kind = "placeholder"
                       /\ CardImageSlot(results.value[k]).aspectRatio =
                              requests[r].images[k].aspectRatio

C8_Witness ==
    \E r \in RequestIds :
        /\ requests[r].phase = "partial"
        /\ Len(requests[r].images) = 3
        /\ \A k \in 1..3 : requests[r].posts[k].platform = platformOrder[k]
        /\ requests[r].images[2].status = "resolved"
        /\ tone = "Witty"

\* C9: the loading flag is true exactly while a request is in flight, a
\* request that has started never returns to idle, and whenever a request is
\* in flight a state follows in which none is in flight (so that request is
\* complete or failed), the loading flag is false and submission is possible.
C9_EveryRequestEnds ==
    /\ [](loading <=> \E r \in RequestIds : InFlight(r))
    /\ [][\A r \in RequestIds :
             requests[r].phase # "idle" => requests'[r].phase # "idle"]_vars
    /\ (\E r \in RequestIds : InFlight(r)) ~>
           /\ \A r \in RequestIds : requests[r].phase = "idle" \/ Terminal(r)
           /\ ~loading
           /\ ~SubmitDisabled

C9_Witness ==
    /\ Terminal(1)
    /\ Terminal(2)
    /\ ~loading
    /\ ~SubmitDisabled

\* C10: a submission with an empty or whitespace-only idea changes nothing
\* but the error: results, loading, idea and tone stay as they are.
C10_RejectionChangesOnlyError ==
    [][(Blank(idea) /\ HandleGenerate) =>
          /\ results' = results
          /\ loading' = loading
          /\ idea' = idea
          /\ tone' = tone
          /\ requests' = requests]_vars

C10_Witness ==
    /\ error = ValidationError
    /\ ~results.isNull
    /\ Len(results.value) = 3
    /\ AllImagesPresent(results.value)
    /\ Blank(idea)

====
